---- MODULE Spec2Model ----
(***************************************************************************)
(* Model of builder/core/env.py: Env.__init__ (environment assembly) and   *)
(* Env._get_git_branch (branch detection).                                 *)
(*                                                                         *)
(* Strings are sequences of symbols (TLA+ strings used as characters or    *)
(* as indivisible words), so that startswith, strip, split, join and       *)
(* normpath are computed, not assumed.  NONE stands for Python's None.     *)
(***************************************************************************)
EXTENDS Integers, Sequences, FiniteSets, TLC

(* ------------------------------------------------------------------ *)
(* Bounds                                                             *)
(* ------------------------------------------------------------------ *)
\* longest output of the version-control probe, in lines
MaxLines == 3
\* number of assemblies run one after the other against the same tree
MaxRuns == 2

(* ------------------------------------------------------------------ *)
(* Python values and string primitives                                *)
(* ------------------------------------------------------------------ *)
NONE == <<"#None">>

Truthy(s) == s /= NONE /\ s /= <<>>

StartsWith(s, p) == Len(s) >= Len(p) /\ SubSeq(s, 1, Len(p)) = p

RemovePrefix(s, p) == SubSeq(s, Len(p) + 1, Len(s))

RECURSIVE LStrip(_, _)
LStrip(s, chars) ==
    IF s /= <<>> /\ Head(s) \in chars THEN LStrip(Tail(s), chars) ELSE s

RECURSIVE RStrip(_, _)
RStrip(s, chars) ==
    IF s /= <<>> /\ s[Len(s)] \in chars
    THEN RStrip(SubSeq(s, 1, Len(s) - 1), chars) ELSE s

\* str.strip(chars)
StripChars(s, chars) == RStrip(LStrip(s, chars), chars)

Whitespace == {" "}

\* branch.strip('*').strip()
StripMarker(line) == StripChars(StripChars(line, {"*"}), Whitespace)

(* ------------------------------------------------------------------ *)
(* Env._get_git_branch                                                *)
(* ------------------------------------------------------------------ *)
RefsHeads == <<"refs/", "heads/">>
RemotesOrigin == <<"remotes/", "origin/">>
NoBranch == <<"(no branch)">>
DefaultBranch == <<"main">>

Returned(v) == [raised |-> FALSE, value |-> v]
Raised == [raised |-> TRUE, value |-> NONE]

\* lines 156-163: the first line starting with '*' decides star_branch
RECURSIVE StarBranch(_)
StarBranch(lines) ==
    IF lines = <<>> THEN NONE
    ELSE IF Head(lines) /= <<>> /\ Head(Head(lines)) = "*"
         THEN IF StripMarker(Head(lines)) = NoBranch
              THEN NONE ELSE StripMarker(Head(lines))
         ELSE StarBranch(Tail(lines))

\* lines 164-165: every non-empty line, marker and whitespace removed
RECURSIVE BranchList(_)
BranchList(lines) ==
    IF lines = <<>> THEN <<>>
    ELSE IF Head(lines) /= <<>>
         THEN <<StripMarker(Head(lines))>> \o BranchList(Tail(lines))
         ELSE BranchList(Tail(lines))

\* lines 175-184, falling out of the loop to line 189
RECURSIVE FirstCandidate(_)
FirstCandidate(branches) ==
    IF branches = <<>> THEN DefaultBranch
    ELSE IF Head(branches) = NoBranch THEN FirstCandidate(Tail(branches))
    ELSE IF StartsWith(Head(branches), RemotesOrigin)
         THEN RemovePrefix(Head(branches), RemotesOrigin)
         ELSE Head(branches)

\* lines 185-189: the handler prints os.getcwd(), which itself raises when
\* the working directory no longer exists
ProbeFailed(probe) ==
    IF probe.kind = "cwd_gone" THEN Raised ELSE Returned(DefaultBranch)

\* variant: the '*' marker is ignored and the first listed entry is taken
ProbeBranchFirstListed(probe) ==
    IF probe.kind /= "ok" THEN ProbeFailed(probe)
    ELSE Returned(FirstCandidate(BranchList(probe.out)))

\* lines 153-189
ProbeBranch(probe) ==
    IF probe.kind /= "ok" THEN ProbeFailed(probe)
    ELSE IF Truthy(StarBranch(probe.out)) THEN Returned(StarBranch(probe.out))
    ELSE Returned(FirstCandidate(BranchList(probe.out)))

\* variant: GITHUB_HEAD_REF is consulted before TRAVIS_PULL_REQUEST_BRANCH
GetGitBranchHeadRefFirst(env, probe) ==
    IF Truthy(env.head_ref) THEN Returned(env.head_ref)
    ELSE IF Truthy(env.travis) THEN Returned(env.travis)
    ELSE IF Truthy(env.ref) /\ StartsWith(env.ref, RefsHeads)
         THEN Returned(RemovePrefix(env.ref, RefsHeads))
    ELSE ProbeBranch(probe)

\* lines 130-151, then the probe
GetGitBranch(env, probe) ==
    IF Truthy(env.travis) THEN Returned(env.travis)
    ELSE IF Truthy(env.head_ref) THEN Returned(env.head_ref)
    ELSE IF Truthy(env.ref) /\ StartsWith(env.ref, RefsHeads)
         THEN Returned(RemovePrefix(env.ref, RefsHeads))
    ELSE ProbeBranch(probe)


(* ------------------------------------------------------------------ *)
(* os.path primitives used by Env.__init__ (posix flavour)            *)
(* ------------------------------------------------------------------ *)
Sep == "/"

\* str.split(os.path.sep)
RECURSIVE Split(_)
Split(s) ==
    IF s = <<>> THEN << <<>> >>
    ELSE IF Head(s) = Sep THEN << <<>> >> \o Split(Tail(s))
    ELSE << <<Head(s)>> \o Head(Split(Tail(s))) >> \o Tail(Split(Tail(s)))

\* os.path.join(a, b)
Join2(a, b) ==
    IF b /= <<>> /\ Head(b) = Sep THEN b
    ELSE IF a = <<>> \/ a[Len(a)] = Sep THEN a \o b
    ELSE a \o <<Sep>> \o b

\* os.path.join(*parts)
RECURSIVE JoinFrom(_, _)
JoinFrom(path, rest) ==
    IF rest = <<>> THEN path ELSE JoinFrom(Join2(path, Head(rest)), Tail(rest))

JoinAll(parts) == JoinFrom(Head(parts), Tail(parts))

\* the component loop of os.path.normpath
RECURSIVE NormComps(_, _, _)
NormComps(comps, acc, rooted) ==
    IF comps = <<>> THEN acc
    ELSE LET c == Head(comps) IN
         IF c = <<>> \/ c = <<".">> THEN NormComps(Tail(comps), acc, rooted)
         ELSE IF c /= <<"..">> \/ (~rooted /\ acc = <<>>)
                 \/ (acc /= <<>> /\ acc[Len(acc)] = <<"..">>)
              THEN NormComps(Tail(comps), Append(acc, c), rooted)
         ELSE IF acc /= <<>>
              THEN NormComps(Tail(comps), SubSeq(acc, 1, Len(acc) - 1), rooted)
         ELSE NormComps(Tail(comps), acc, rooted)

\* '/'.join(comps)
RECURSIVE JoinSep(_)
JoinSep(comps) ==
    IF comps = <<>> THEN <<>>
    ELSE IF Len(comps) = 1 THEN Head(comps)
    ELSE Head(comps) \o <<Sep>> \o JoinSep(Tail(comps))

IsAbs(s) == s /= <<>> /\ Head(s) = Sep

\* os.path.normpath
NormPath(s) ==
    LET body == JoinSep(NormComps(Split(s), <<>>, IsAbs(s)))
        path == IF IsAbs(s) THEN <<Sep>> \o body ELSE body
    IN  IF path = <<>> THEN <<".">> ELSE path

\* os.path.abspath, relative to the process working directory
AbsPath(s, workdir) == NormPath(IF IsAbs(s) THEN s ELSE Join2(workdir, s))

\* p is d itself or lies below d
Under(p, d) ==
    \/ p = d
    \/ StartsWith(p, IF d[Len(d)] = Sep THEN d ELSE d \o <<Sep>>)


(* ------------------------------------------------------------------ *)
(* State                                                              *)
(* ------------------------------------------------------------------ *)
VARIABLES
    pc,          \* position inside Env.__init__
    cfg,         \* the config dict handed to Env(config) and the process flags
    self,        \* attributes of the Env object
    found,       \* the local `project` of lines 68-77
    variables,   \* self.variables (the Variables dict)
    search_dirs, \* Project.search_dirs
    cwd,         \* working directory of the process
    fs,          \* paths that exist on disk
    events,      \* calls made on the collaborators, in order
    error,       \* exception that ended the assembly, "" if none
    run,         \* number of the assembly under way
    disk_config, \* the project's configuration on disk, once it was read
    environ,     \* os.environ as read by _get_git_branch
    probe,       \* what `git branch -a --contains HEAD` does
    bpc,         \* position of a stand-alone _get_git_branch call
    bresult      \* its outcome

vars == <<pc, cfg, self, found, variables, search_dirs, cwd, fs, events,
          error, run, disk_config, environ, probe, bpc, bresult>>

branchVars == <<environ, probe, bpc, bresult>>

(* ------------------------------------------------------------------ *)
(* Values                                                             *)
(* ------------------------------------------------------------------ *)
P(a) == <<Sep, a>>
Sub(d, a) == d \o <<Sep, a>>

LaunchDir == P("work")

NoProject == [name |-> NONE, path |-> NONE]
ProjectRef(name) == [name |-> name, path |-> NONE]
ProjectAt(name, path) == [name |-> name, path |-> path]

\* Project.resolved()
Resolved(project) == project.path /= NONE

NoConfig == [build_dir |-> NONE, deps_dir |-> NONE, install_dir |-> NONE]

EmptyStore == [k \in {} |-> NONE]

Ev(op, key, val) == [op |-> op, key |-> key, val |-> val, hints |-> <<>>]
EvFind(name, hints) ==
    [op |-> "find_project", key |-> "", val |-> name, hints |-> hints]

\* directories holding sources before any assembly
Sources ==
    { <<Sep>>, LaunchDir, Sub(LaunchDir, "builder.json"),
      Sub(LaunchDir, "foo"), Sub(Sub(LaunchDir, "foo"), "builder.json"),
      Sub(LaunchDir, "app"), Sub(Sub(LaunchDir, "app"), "builder.json"),
      P("tmp"), P("opt"), Sub(P("opt"), "foo") }

Roots == { LaunchDir, Sub(LaunchDir, "foo"), Sub(LaunchDir, "app") }

\* places a build directory may have been left by an earlier build
OldBuildDirs ==
    { Sub(r, "build") : r \in Roots } \cup { Sub(r, "out") : r \in Roots }
        \cup { Sub(P("tmp"), "b") }

InitialTrees ==
    { Sources,
      Sources \cup OldBuildDirs,
      Sources \cup OldBuildDirs \cup { Sub(d, "old.o") : d \in OldBuildDirs } }

Configs ==
    [ dryrun : BOOLEAN,
      branch : { NONE, <<"dev">> },
      project : { NoProject, ProjectRef(<<"app">>),
                  ProjectAt(<<"app">>, Sub(LaunchDir, "app")) },
      args_project : { NONE, <<"foo">>, <<"libs", Sep, "foo">>,
                       <<Sep, "opt", Sep, "foo">> } ]

\* what project.get_config can answer for the three directory keys
ProjectConfigs ==
    { [build_dir |-> b, deps_dir |-> d[1], install_dir |-> d[2]] :
        b \in { NONE, <<"out">>, <<".">>, <<"..">>, Sub(P("tmp"), "b") },
        d \in { <<NONE, NONE>>, <<(<<"deps">>), Sub(P("opt"), "inst")>> } }

\* the project's configuration has not been read yet
Unread == [build_dir |-> <<"#unread">>, deps_dir |-> NONE, install_dir |-> NONE]

NoEnviron == [travis |-> NONE, head_ref |-> NONE, ref |-> NONE]
NoProbe == [kind |-> "unused", out |-> <<>>]

\* signals and probes an assembly is run under
AssemblyEnvirons ==
    { NoEnviron, [travis |-> <<"feature-x">>, head_ref |-> NONE, ref |-> NONE] }
AssemblyProbes ==
    { [kind |-> "not_a_repository", out |-> <<>>],
      [kind |-> "cwd_gone", out |-> <<>>],
      [kind |-> "ok", out |-> << <<"*", " ", "topic">>, <<>> >>] }

(* ------------------------------------------------------------------ *)
(* Collaborators                                                      *)
(* ------------------------------------------------------------------ *)
\* Variables.__setitem__: super().__setitem__(item, value)
StoreSet(store, item, value) ==
    [k \in DOMAIN store \cup {item} |-> IF k = item THEN value ELSE store[k]]

\* Env._publish_variable -> Project._publish_variable
PublishVariable(evs, var, value) == Append(evs, Ev("publish", var, value))

\* variant: the value is stored but never published
SetItemUnpublished(st, item, value) ==
    [store |-> StoreSet(st.store, item, value), events |-> st.events]

\* Variables.__setitem__ as a whole, on the pair (store, events)
SetItem(st, item, value) ==
    [store |-> StoreSet(st.store, item, value),
     events |-> PublishVariable(st.events, item, value)]

\* Shell.cd: the process changes directory unless the shell is a dry run
ShellCd(dir, dryrun, path) == IF dryrun THEN dir ELSE path

\* Shell.rm: recursive delete
ShellRm(tree, dryrun, path) ==
    IF dryrun THEN tree ELSE { f \in tree : ~Under(f, path) }

\* Shell.mkdir
ShellMkdir(tree, dryrun, path) == IF dryrun THEN tree ELSE tree \cup {path}

\* Project.find_project: a resolved project in one of the places searched,
\* or a reference by name
FindResults(name, hints, tree) ==
    { ProjectRef(name) } \cup
    { ProjectAt(name, d) :
        d \in ({ hints[i] : i \in DOMAIN hints }
               \cup { Join2(search_dirs[i], name) : i \in DOMAIN search_dirs })
              \cap tree }

\* Project.default_project
DefaultResults ==
    { NoProject, ProjectRef(<<"work">>), ProjectAt(<<"work">>, LaunchDir) }


(* ------------------------------------------------------------------ *)
(* Env.__init__                                                       *)
(* ------------------------------------------------------------------ *)
\* lines 16-33: defaults, a fresh Variables dict, config copied onto self
NewEnv(c) ==
    [ dryrun |-> c.dryrun, branch |-> c.branch, project |-> c.project,
      launch_dir |-> NONE, config |-> NoConfig, root_dir |-> NONE,
      build_dir |-> NONE, deps_dir |-> NONE, install_dir |-> NONE ]

Init ==
    /\ cfg \in Configs
    /\ fs \in InitialTrees
    /\ pc = "branch"
    /\ self = NewEnv(cfg)
    /\ found = NoProject
    /\ variables = EmptyStore
    /\ search_dirs = <<>>
    /\ cwd = LaunchDir
    /\ events = <<>>
    /\ error = ""
    /\ run = 1
    /\ disk_config = Unread
    /\ environ = NoEnviron
    /\ probe = NoProbe
    /\ bpc = "idle"
    /\ bresult = Returned(NONE)

\* line 36
DetermineBranch ==
    /\ pc = "branch"
    /\ IF Truthy(self.branch)
       THEN /\ pc' = "shell"
            /\ UNCHANGED <<self, error>>
       ELSE \E e \in AssemblyEnvirons, g \in AssemblyProbes :
              LET r == GetGitBranch(e, g) IN
                IF r.raised
                THEN /\ pc' = "raised"
                     /\ error' = "FileNotFoundError"
                     /\ UNCHANGED self
                ELSE /\ pc' = "shell"
                     /\ self' = [self EXCEPT !.branch = r.value]
                     /\ UNCHANGED error
    /\ UNCHANGED <<cfg, found, variables, search_dirs, cwd, fs, events, run,
                   disk_config, branchVars>>

\* lines 38-47
InitShell ==
    /\ pc = "shell"
    /\ self' = [self EXCEPT !.launch_dir = AbsPath(cwd, cwd)]
    /\ search_dirs' = <<AbsPath(cwd, cwd)>>
    /\ pc' = "default"
    /\ UNCHANGED <<cfg, found, variables, cwd, fs, events, error, run,
                   disk_config, branchVars>>

\* variant: default_project() is called even when a project was supplied
DefaultProjectAlways ==
    /\ pc = "default"
    /\ \E r \in DefaultResults :
         /\ self' = [self EXCEPT !.project = r]
         /\ events' = Append(events, Ev("default_project", "", <<>>))
    /\ pc' = "locate"
    /\ UNCHANGED <<cfg, found, variables, search_dirs, cwd, fs, error, run,
                   disk_config, branchVars>>

\* lines 49-52
DefaultProject ==
    /\ pc = "default"
    /\ IF self.project = NoProject
       THEN \E r \in DefaultResults :
              /\ self' = [self EXCEPT !.project = r]
              /\ events' = Append(events, Ev("default_project", "", <<>>))
       ELSE UNCHANGED <<self, events>>
    /\ pc' = "locate"
    /\ UNCHANGED <<cfg, found, variables, search_dirs, cwd, fs, error, run,
                   disk_config, branchVars>>

\* lines 59-64: the name and the hints find_project is called with
ProjectParts(project_name) == Split(project_name)

ProjectHints(project_name, workdir) ==
    IF Len(ProjectParts(project_name)) > 1
    THEN <<AbsPath(JoinAll(ProjectParts(project_name)), workdir)>>
    ELSE <<>>

ProjectBareName(project_name) ==
    ProjectParts(project_name)[Len(ProjectParts(project_name))]

\* lines 54-69 and, for a project found on disk, line 77
LocateProject ==
    /\ pc = "locate"
    /\ IF ~Truthy(cfg.args_project)
       THEN /\ pc' = "check"
            /\ UNCHANGED <<self, found, events>>
       ELSE LET name == ProjectBareName(cfg.args_project)
                hints == ProjectHints(cfg.args_project, cwd)
            IN  \E r \in FindResults(name, hints, fs) :
                  /\ events' = Append(events, EvFind(name, hints))
                  /\ found' = r
                  /\ IF r.path = NONE
                     THEN pc' = "download" /\ UNCHANGED self
                     ELSE pc' = "check" /\ self' = [self EXCEPT !.project = r]
    /\ UNCHANGED <<cfg, variables, search_dirs, cwd, fs, error, run, disk_config,
                   branchVars>>

\* lines 70-77: download, look the project up again, assert it resolved.
\* `asserts` is FALSE when the interpreter runs with -O, which drops line 75.
DownloadProject ==
    /\ pc = "download"
    /\ \E ok \in BOOLEAN, asserts \in BOOLEAN :
         LET called == Append(events,
                 [op |-> "download", key |-> "", val |-> found.name,
                  hints |-> <<self.branch, <<".">> >>])
             hints == <<AbsPath(<<".">>, cwd)>>
         IN  IF ~ok
             THEN /\ events' = called
                  /\ error' = "DownloadError"
                  /\ pc' = "raised"
                  /\ UNCHANGED <<self, found>>
             ELSE \E r \in FindResults(found.name, hints, fs) :
                    /\ events' = Append(called, EvFind(found.name, hints))
                    /\ found' = r
                    /\ IF ~Resolved(r) /\ asserts
                       THEN /\ error' = "AssertionError"
                            /\ pc' = "raised"
                            /\ UNCHANGED self
                       ELSE /\ self' = [self EXCEPT !.project = r]
                            /\ pc' = "check"
                            /\ UNCHANGED error
    /\ UNCHANGED <<cfg, variables, search_dirs, cwd, fs, run, disk_config,
                   branchVars>>

\* variant: only a missing project ends the assembly, an unresolved one
\* does not
CheckResolvedMissingOnly ==
    /\ pc = "check"
    /\ pc' = IF self.project = NoProject THEN "returned" ELSE "config"
    /\ UNCHANGED <<cfg, self, found, variables, search_dirs, cwd, fs, events,
                   error, run, disk_config, branchVars>>

\* lines 79-80
CheckResolved ==
    /\ pc = "check"
    /\ pc' = IF self.project = NoProject \/ ~Resolved(self.project)
             THEN "returned" ELSE "config"
    /\ UNCHANGED <<cfg, self, found, variables, search_dirs, cwd, fs, events,
                   error, run, disk_config,
                   branchVars>>

\* lines 82-84
BuildConfig ==
    /\ pc = "config"
    /\ \E c \in (IF disk_config = Unread THEN ProjectConfigs ELSE {disk_config}) :
         /\ self' = [self EXCEPT !.config = c]
         /\ disk_config' = c
    /\ events' = events \o << Ev("use_variant", "", self.project.name),
                              Ev("get_config", "", self.project.name) >>
    /\ pc' = "root"
    /\ UNCHANGED <<cfg, found, variables, search_dirs, cwd, fs, error, run,
                   branchVars>>

\* lines 86-89
SetRoot ==
    /\ pc = "root"
    /\ LET root_dir == AbsPath(self.project.path, cwd)
           st == SetItem([store |-> variables, events |-> events],
                         "root_dir", root_dir)
       IN  /\ self' = [self EXCEPT !.root_dir = root_dir]
           /\ variables' = st.store
           /\ events' = Append(st.events, Ev("cd", "", root_dir))
           /\ cwd' = ShellCd(cwd, self.dryrun, root_dir)
    /\ pc' = "dirs"
    /\ UNCHANGED <<cfg, found, search_dirs, fs, error, run, disk_config,
                   branchVars>>

\* config.get(key, default)
ConfigGet(value, default) == IF value = NONE THEN default ELSE value

\* lines 91-102
DeriveDirs ==
    /\ pc = "dirs"
    /\ LET build_dir ==
               AbsPath(ConfigGet(self.config.build_dir,
                                 Join2(self.root_dir, <<"build">>)), cwd)
           st1 == SetItem([store |-> variables, events |-> events],
                          "build_dir", build_dir)
           deps_dir ==
               AbsPath(ConfigGet(self.config.deps_dir,
                                 Join2(build_dir, <<"deps">>)), cwd)
           st2 == SetItem(st1, "deps_dir", deps_dir)
           install_dir ==
               AbsPath(ConfigGet(self.config.install_dir,
                                 Join2(build_dir, <<"install">>)), cwd)
           st3 == SetItem(st2, "install_dir", install_dir)
       IN  /\ self' = [self EXCEPT !.build_dir = build_dir,
                                   !.deps_dir = deps_dir,
                                   !.install_dir = install_dir]
           /\ variables' = st3.store
           /\ events' = st3.events
    /\ pc' = "pathenv"
    /\ UNCHANGED <<cfg, found, search_dirs, cwd, fs, error, run, disk_config,
                   branchVars>>

\* lines 104-109
AddPathEnv ==
    /\ pc = "pathenv"
    /\ \E win32 \in BOOLEAN :
         events' = events \o
           IF win32
           THEN << Ev("addpathenv", "PATH",
                      AbsPath(Join2(self.install_dir, <<"bin">>), cwd)) >>
           ELSE << Ev("addpathenv", "LD_LIBRARY_PATH",
                      AbsPath(Join2(self.install_dir, <<"lib64">>), cwd)),
                   Ev("addpathenv", "LD_LIBRARY_PATH",
                      AbsPath(Join2(self.install_dir, <<"lib">>), cwd)) >>
    /\ pc' = "search"
    /\ UNCHANGED <<cfg, self, found, variables, search_dirs, cwd, fs, error,
                   run, disk_config,
                   branchVars>>

\* lines 111-118
ExtendSearchDirs ==
    /\ pc = "search"
    /\ search_dirs' = search_dirs \o
                        <<self.build_dir, self.root_dir, self.deps_dir>>
    /\ pc' = "prepare"
    /\ UNCHANGED <<cfg, self, found, variables, cwd, fs, events, error, run,
                   disk_config, branchVars>>

\* variant: the build directory is created without being wiped first
PrepareBuildDirNoWipe ==
    /\ pc = "prepare"
    /\ events' = Append(events, Ev("mkdir", "", self.build_dir))
    /\ fs' = ShellMkdir(fs, self.dryrun, self.build_dir)
    /\ pc' = "done"
    /\ UNCHANGED <<cfg, self, found, variables, search_dirs, cwd, error, run,
                   disk_config, branchVars>>

\* lines 120-123
PrepareBuildDir ==
    /\ pc = "prepare"
    /\ IF self.build_dir \in fs
       THEN /\ events' = events \o << Ev("rm", "", self.build_dir),
                                      Ev("mkdir", "", self.build_dir) >>
            /\ fs' = ShellMkdir(ShellRm(fs, self.dryrun, self.build_dir),
                                self.dryrun, self.build_dir)
       ELSE /\ events' = Append(events, Ev("mkdir", "", self.build_dir))
            /\ fs' = ShellMkdir(fs, self.dryrun, self.build_dir)
    /\ pc' = "done"
    /\ UNCHANGED <<cfg, self, found, variables, search_dirs, cwd, error, run,
                   disk_config, branchVars>>

\* The build that follows an assembly leaves its output in build_dir; the
\* tool is then started again in the launch directory with the same
\* configuration (lines 16-33 of the next Env).
NewAssembly ==
    /\ pc = "done"
    /\ run < MaxRuns
    /\ run' = run + 1
    /\ fs' = IF self.dryrun THEN fs
             ELSE fs \cup { Join2(self.build_dir, <<"new.o">>) }
    /\ pc' = "branch"
    /\ self' = NewEnv(cfg)
    /\ found' = NoProject
    /\ variables' = EmptyStore
    /\ cwd' = LaunchDir
    /\ events' = <<>>
    /\ search_dirs' = <<>>
    /\ UNCHANGED <<cfg, error, disk_config, branchVars>>

Next ==
    \/ DetermineBranch
    \/ InitShell
    \/ DefaultProject
    \/ LocateProject
    \/ DownloadProject
    \/ CheckResolved
    \/ BuildConfig
    \/ SetRoot
    \/ DeriveDirs
    \/ AddPathEnv
    \/ ExtendSearchDirs
    \/ PrepareBuildDir
    \/ NewAssembly

Spec == Init /\ [][Next]_vars

(* ------------------------------------------------------------------ *)
(* _get_git_branch on its own, over the signals and probe outputs     *)
(* ------------------------------------------------------------------ *)
TravisValues == { NONE, <<>>, <<"feature-x">> }
HeadRefValues == { NONE, <<>>, <<"pr-source">> }
RefValues ==
    { NONE, <<>>, <<"refs/", "heads/", "main">>, <<"refs/", "heads/">>,
      <<"refs/", "tags/", "v1">>, <<"refs/", "pull/", "7/", "merge">> }

Environs == [travis : TravisValues, head_ref : HeadRefValues, ref : RefValues]

StarLines == { <<"*", " ", "topic">>, <<"*", " ", "(no branch)">> }
PlainLines ==
    { <<" ", " ", "dev">>, <<" ", " ", "remotes/", "origin/", "main">>,
      <<" ", " ", "remotes/", "origin/", "HEAD">> }

\* git marks at most one line with '*'
GitOutputs ==
    { o \in UNION { [1..n -> StarLines \cup PlainLines] : n \in 0..MaxLines } :
        Cardinality({ i \in DOMAIN o : o[i] \in StarLines }) <= 1 }

FailureKinds == { "tool_absent", "not_a_repository", "undecodable", "cwd_gone" }

\* check_output(...).decode(...).split('\n'): the output ends with a newline,
\* so the split ends with an empty line
Probes ==
    { [kind |-> k, out |-> <<>>] : k \in FailureKinds } \cup
    { [kind |-> "ok", out |-> o \o << <<>> >>] : o \in GitOutputs }

InitBranch ==
    /\ environ \in Environs
    /\ probe \in Probes
    /\ bpc = "call"
    /\ bresult = Returned(NONE)
    /\ cfg = [dryrun |-> FALSE, branch |-> NONE, project |-> NoProject,
              args_project |-> NONE]
    /\ fs = Sources
    /\ pc = "idle"
    /\ self = NewEnv(cfg)
    /\ found = NoProject
    /\ variables = EmptyStore
    /\ search_dirs = <<>>
    /\ cwd = LaunchDir
    /\ events = <<>>
    /\ error = ""
    /\ run = 1
    /\ disk_config = Unread

\* lines 128-189
CallGetGitBranch ==
    /\ bpc = "call"
    /\ bresult' = GetGitBranch(environ, probe)
    /\ bpc' = "ret"
    /\ UNCHANGED <<pc, cfg, self, found, variables, search_dirs, cwd, fs,
                   events, error, run, disk_config, environ, probe>>

NextBranch == CallGetGitBranch

SpecBranch == InitBranch /\ [][NextBranch]_vars


(* ------------------------------------------------------------------ *)
(* Vocabulary of the properties                                       *)
(* ------------------------------------------------------------------ *)
EventsOf(op) == SelectSeq(events, LAMBDA e : e.op = op)
Count(op) == Len(EventsOf(op))
Positions(op) == { i \in DOMAIN events : events[i].op = op }
PositionsOfKey(op, key) ==
    { i \in DOMAIN events : events[i].op = op /\ events[i].key = key }

\* line 79 has been reached
ProjectSettled ==
    pc \in { "check", "returned", "config", "root", "dirs", "pathenv",
             "search", "prepare", "done" }
\* line 79 has been passed
PastCheck ==
    pc \in { "returned", "config", "root", "dirs", "pathenv", "search",
             "prepare", "done" }

BranchShaped(ref) == Len(ref) >= 2 /\ ref[1] = "refs/" /\ ref[2] = "heads/"

\* no CI signal yields a branch
NoSignal ==
    /\ ~Truthy(environ.travis)
    /\ ~Truthy(environ.head_ref)
    /\ ~(Truthy(environ.ref) /\ BranchShaped(environ.ref))

Marked(i) == probe.out[i] /= <<>> /\ probe.out[i][1] = "*"
Listed == { i \in DOMAIN probe.out : probe.out[i] /= <<>> }
Entry(i) == StripMarker(probe.out[i])
Candidates == { i \in Listed : Entry(i) /= NoBranch }
WithoutRemote(b) ==
    IF Len(b) >= 2 /\ b[1] = "remotes/" /\ b[2] = "origin/"
    THEN SubSeq(b, 3, Len(b)) ELSE b

(* ------------------------------------------------------------------ *)
(* C1                                                                 *)
(* ------------------------------------------------------------------ *)
\* C1 as stated: a signal that is set (present in the environment, even if
\* empty) wins over everything after it: TRAVIS_PULL_REQUEST_BRANCH is
\* returned verbatim if set, else GITHUB_HEAD_REF verbatim if set, else
\* GITHUB_REF without 'refs/heads/' if it has that prefix.
C1_SetSignalWins ==
    bpc = "ret" =>
      /\ environ.travis /= NONE => bresult = Returned(environ.travis)
      /\ environ.travis = NONE /\ environ.head_ref /= NONE
           => bresult = Returned(environ.head_ref)
      /\ environ.travis = NONE /\ environ.head_ref = NONE
           /\ environ.ref /= NONE /\ BranchShaped(environ.ref)
           => bresult = Returned(SubSeq(environ.ref, 3, Len(environ.ref)))

\* C1 amended: the precedence holds for signals set to a non-empty value (an
\* empty signal counts as unset): a non-empty TRAVIS_PULL_REQUEST_BRANCH is
\* returned verbatim whatever the rest; else a non-empty GITHUB_HEAD_REF is
\* returned verbatim; else a GITHUB_REF starting with 'refs/heads/' is
\* returned without that prefix; a non-empty GITHUB_REF that is not
\* branch-shaped is never returned and the result is the probe's.
C1_Precedence ==
    bpc = "ret" =>
      /\ Truthy(environ.travis) => bresult = Returned(environ.travis)
      /\ ~Truthy(environ.travis) /\ Truthy(environ.head_ref)
           => bresult = Returned(environ.head_ref)
      /\ ~Truthy(environ.travis) /\ ~Truthy(environ.head_ref)
           /\ Truthy(environ.ref) /\ BranchShaped(environ.ref)
           => bresult = Returned(SubSeq(environ.ref, 3, Len(environ.ref)))
      /\ ~Truthy(environ.travis) /\ ~Truthy(environ.head_ref)
           /\ Truthy(environ.ref) /\ ~BranchShaped(environ.ref)
           => /\ bresult = ProbeBranch(probe)
              /\ bresult.value /= environ.ref

\* all three signals are set to non-empty values and the first one won
C1_Witness ==
    /\ bpc = "ret"
    /\ Truthy(environ.travis) /\ Truthy(environ.head_ref)
    /\ Truthy(environ.ref) /\ BranchShaped(environ.ref)
    /\ probe.kind = "ok"
    /\ bresult = Returned(environ.travis)

(* ------------------------------------------------------------------ *)
(* C2                                                                 *)
(* ------------------------------------------------------------------ *)
\* C2: whenever no CI signal yields a branch and the version-control probe
\* fails, for whatever reason, _get_git_branch raises nothing and returns
\* the static default 'main'.
C2_ProbeFailureYieldsDefault ==
    bpc = "ret" /\ NoSignal /\ probe.kind /= "ok"
      => bresult = Returned(DefaultBranch)

(* ------------------------------------------------------------------ *)
(* C9                                                                 *)
(* ------------------------------------------------------------------ *)
\* C9: with no CI signal and a successful probe, a line marked '*' that
\* names something other than '(no branch)' decides the result wherever it
\* stands in the output; otherwise the first listed entry that is not the
\* sentinel is returned without a leading 'remotes/origin/'; otherwise the
\* result is 'main'.
C9_ProbeOutputDecides ==
    bpc = "ret" /\ NoSignal /\ probe.kind = "ok" =>
      IF \E i \in Candidates : Marked(i)
      THEN \E i \in Candidates : Marked(i) /\ bresult = Returned(Entry(i))
      ELSE IF Candidates /= {}
      THEN \E i \in Candidates :
             /\ \A j \in Candidates : i <= j
             /\ bresult = Returned(WithoutRemote(Entry(i)))
      ELSE bresult = Returned(DefaultBranch)

\* the marked branch stands after another entry and is returned all the same
C9_Witness ==
    /\ bpc = "ret" /\ NoSignal /\ probe.kind = "ok"
    /\ Len(probe.out) >= 3
    /\ ~Marked(1) /\ 1 \in Candidates
    /\ Marked(2) /\ 2 \in Candidates
    /\ bresult = Returned(Entry(2))


(* ------------------------------------------------------------------ *)
(* C3                                                                 *)
(* ------------------------------------------------------------------ *)
\* C3 as stated: exactly one strategy runs: a project object supplied in the
\* configuration is used as the environment's project with no find_project
\* and no download, whether or not args names a project; else with no name
\* requested default_project() is called; else find_project is called and
\* default_project() is not.
C3_ExactlyOneStrategy ==
    ProjectSettled =>
      IF cfg.project /= NoProject
      THEN /\ self.project = cfg.project
           /\ Count("find_project") = 0 /\ Count("download") = 0
           /\ Count("default_project") = 0
      ELSE IF ~Truthy(cfg.args_project)
      THEN Count("default_project") = 1 /\ Count("find_project") = 0
      ELSE Count("find_project") >= 1 /\ Count("default_project") = 0

\* C3 amended: default_project() is called exactly when no project object
\* was supplied, whether or not a name is requested; find_project is called
\* exactly when args names a project, whether or not a project object was
\* supplied, first with the bare requested name, a second time exactly when
\* a download was made, and its result replaces the supplied or default
\* project; a supplied project is used as the environment's project, with
\* no name-based lookup, only when no name is requested.
C3_Strategies ==
    ProjectSettled =>
      /\ Count("default_project") = IF cfg.project = NoProject THEN 1 ELSE 0
      /\ Truthy(cfg.args_project) =>
           /\ Count("find_project") = 1 + Count("download")
           /\ Count("download") <= 1
           /\ EventsOf("find_project")[1].val
                = ProjectBareName(cfg.args_project)
           /\ self.project = found
           /\ self.project /= cfg.project
      /\ ~Truthy(cfg.args_project) =>
           /\ Count("find_project") = 0 /\ Count("download") = 0
           /\ cfg.project /= NoProject => self.project = cfg.project

\* a resolved project was supplied, a name was requested too, and the lookup
\* replaced the supplied project
C3_Witness ==
    /\ pc = "check"
    /\ Resolved(cfg.project)
    /\ Truthy(cfg.args_project)
    /\ Count("find_project") = 1
    /\ Count("default_project") = 0
    /\ self.project = found /\ self.project /= cfg.project

(* ------------------------------------------------------------------ *)
(* C4                                                                 *)
(* ------------------------------------------------------------------ *)
\* the download completed and the second lookup still gave an unresolved
\* project
RefindFailed ==
    /\ Count("download") = 1
    /\ Count("find_project") = 2
    /\ ~Resolved(found)

\* C4: when the download completes and the second find_project is still
\* unresolved, assembly fails with a ConfigurationError, with nothing
\* published, the working directory unchanged and build_dir untouched.
C4_ConfigurationError ==
    RefindFailed =>
      /\ pc = "raised" /\ error = "ConfigurationError"
      /\ DOMAIN variables = {}
      /\ Count("publish") = 0 /\ Count("cd") = 0
      /\ Count("rm") = 0 /\ Count("mkdir") = 0
      /\ cwd = LaunchDir

(* ------------------------------------------------------------------ *)
(* C5                                                                 *)
(* ------------------------------------------------------------------ *)
\* C5: with no project name requested and the project (supplied or from
\* default_project()) absent or unresolved, assembly returns normally with
\* no further side effect: nothing stored or published, no use_variant or
\* get_config, no cd, addpathenv, rm or mkdir, and the search scope is
\* exactly [launch_dir].
C5_NothingToBuild ==
    ( /\ PastCheck
      /\ ~Truthy(cfg.args_project)
      /\ (self.project = NoProject \/ ~Resolved(self.project)) )
    => /\ pc = "returned"
       /\ error = ""
       /\ DOMAIN variables = {}
       /\ \A i \in DOMAIN events : events[i].op = "default_project"
       /\ search_dirs = <<self.launch_dir>>
       /\ self.launch_dir = LaunchDir
       /\ cwd = LaunchDir
       /\ run = 1 => fs \in InitialTrees

\* default_project() answered with an unresolved project and assembly
\* returned
C5_Witness ==
    /\ pc = "returned"
    /\ ~Truthy(cfg.args_project)
    /\ cfg.project = NoProject
    /\ self.project = ProjectRef(<<"work">>)
    /\ Count("default_project") = 1

(* ------------------------------------------------------------------ *)
(* C6                                                                 *)
(* ------------------------------------------------------------------ *)
\* everything before the final path segment (os.path.dirname)
DirPortion(s) ==
    LET last == CHOOSE i \in DOMAIN s :
                  s[i] = Sep /\ \A j \in DOMAIN s : s[j] = Sep => j <= i
    IN  IF last = 1 THEN <<Sep>> ELSE SubSeq(s, 1, last - 1)

HasSep(s) == \E i \in DOMAIN s : s[i] = Sep

\* C6: a requested name holding a path separator reaches find_project as the
\* final segment, with the absolute path of the directory portion as the
\* only hint ('libs/foo' gives 'foo' and the absolute path of 'libs'; an
\* absolute path keeps its absolute directory); a name without separator
\* gives no hint.
C6_DirectoryPortionIsHint ==
    Truthy(cfg.args_project) /\ Count("find_project") >= 1 =>
      LET call == EventsOf("find_project")[1] IN
        /\ call.val = Split(cfg.args_project)[Len(Split(cfg.args_project))]
        /\ call.hints =
             IF HasSep(cfg.args_project)
             THEN <<AbsPath(DirPortion(cfg.args_project), LaunchDir)>>
             ELSE <<>>


(* ------------------------------------------------------------------ *)
(* C7                                                                 *)
(* ------------------------------------------------------------------ *)
DirKeys == <<"root_dir", "build_dir", "deps_dir", "install_dir">>

\* C7: an assembly that is no dry run and resolves a project wipes and
\* recreates build_dir exactly once, after the four directories are
\* derived: before the last step nothing is removed or created; at the end
\* there is one mkdir of build_dir, preceded by at most one rm of build_dir,
\* both after the four directories were published; build_dir exists and
\* nothing lies below it, whatever an earlier assembly or build left there.
C7_BuildDirRecreated ==
    /\ pc /= "done" => Count("rm") = 0 /\ Count("mkdir") = 0
    /\ pc = "done" /\ ~self.dryrun =>
         /\ Count("mkdir") = 1 /\ Count("rm") <= 1
         /\ \A i \in Positions("rm") \cup Positions("mkdir") :
              /\ events[i].val = self.build_dir
              /\ \A j \in Positions("publish") : j < i
         /\ \A i \in Positions("rm") : \A j \in Positions("mkdir") : i < j
         /\ Count("publish") = 4
         /\ self.build_dir \in fs
         /\ \A f \in fs : Under(f, self.build_dir) => f = self.build_dir
         /\ self.config.build_dir = NONE
              => self.build_dir = Sub(self.root_dir, "build")

\* a second assembly of the same tree has wiped what the build after the
\* first one left in build_dir
C7_Witness ==
    /\ pc = "done" /\ ~self.dryrun /\ run = 2
    /\ Count("rm") = 1
    /\ self.config.build_dir = NONE
    /\ self.build_dir \in fs
    /\ Join2(self.build_dir, <<"new.o">>) \notin fs

(* ------------------------------------------------------------------ *)
(* C8                                                                 *)
(* ------------------------------------------------------------------ *)
\* C8: every write to the VariableStore has exactly one publication with
\* the same key and value, and there is no other publication; a completed
\* assembly has published exactly root_dir, build_dir, deps_dir and
\* install_dir, once each and in that order, each with the value of the
\* attribute of that name, root_dir before the change of directory to
\* root_dir.
C8_Publication ==
    /\ Count("publish") = Cardinality(DOMAIN variables)
    /\ \A k \in DOMAIN variables :
         /\ Cardinality(PositionsOfKey("publish", k)) = 1
         /\ \A i \in PositionsOfKey("publish", k) : events[i].val = variables[k]
    /\ pc = "done" =>
         /\ Count("publish") = 4
         /\ \A n \in 1..4 : EventsOf("publish")[n].key = DirKeys[n]
         /\ variables["root_dir"] = self.root_dir
         /\ variables["build_dir"] = self.build_dir
         /\ variables["deps_dir"] = self.deps_dir
         /\ variables["install_dir"] = self.install_dir
         /\ Count("cd") = 1
         /\ \A i \in Positions("cd") :
              /\ events[i].val = self.root_dir
              /\ \A j \in PositionsOfKey("publish", "root_dir") : j < i

\* an assembly ran to its end with the four directories published
C8_Witness ==
    /\ pc = "done"
    /\ Count("publish") = 4
    /\ DOMAIN variables = { DirKeys[n] : n \in 1..4 }
    /\ self.config.deps_dir /= NONE

(* ------------------------------------------------------------------ *)
(* C10                                                                *)
(* ------------------------------------------------------------------ *)
\* C10: the path handed to shell.rm is never root_dir, an ancestor of
\* root_dir, or launch_dir, whatever build_dir the configuration supplies.
C10_WipeSparesSources ==
    \A i \in Positions("rm") :
      /\ ~Under(self.root_dir, events[i].val)
      /\ events[i].val /= self.launch_dir

====
